---- MODULE Spec2Model ----
(***************************************************************************)
(* gator: the feed polling and ingestion engine.                           *)
(*                                                                         *)
(* The model follows main.go: handlerAgg validates its argument and then   *)
(* runs scrapeFeeds forever, once immediately and then once per tick.      *)
(* scrapeFeeds selects the next feed, marks it fetched, fetches and parses *)
(* its document and issues one CreatePost per item.  Every call that       *)
(* leaves the process (a query, the HTTP request) is one step, so the      *)
(* order of the calls is visible in the behaviours.                        *)
(***************************************************************************)
EXTENDS Integers, Sequences, FiniteSets, TLC

(* ------------------------------ bounds --------------------------------- *)

\* poll cycles started, summed over the agg processes
MaxCycles == 3

\* poll cycles started by the two agg processes of SpecConc together
MaxConcCycles == 2

\* items of one fetched document
MaxItems == 2

\* feed rows the store may hold (primary keys of feeds)
FeedIds == {1, 2, 3}

\* feed rows the store of SpecConc may hold
ConcFeedIds == {1, 2}

\* gator commands run one after the other in SpecCmd
MaxCommands == 4

\* names a user may register under
UserNames == {"alice", "bob"}

\* agg processes; Spec runs the first one only
Procs == {1, 2}

\* <link> values of items
Links == {"http://a/1", "http://a/2"}

\* raw <title> values of items, as they come off the wire
RawTitles == {"A &amp; B"}

\* raw <description> values of items
RawDescriptions == {"x &lt; y"}

\* <pubDate> values: RFC1123Z, and RFC1123 with a zone name
PubDates == {"Mon, 02 Jan 2006 15:04:05 -0700",
             "Mon, 02 Jan 2006 15:04:05 MST"}

\* command lines of `gator agg ...`
ArgLists == {<<>>, <<"1m">>, <<"soon">>, <<"1m", "1m">>}

(* ------------------------------ values --------------------------------- *)

\* sql.NullTime: <<>> is NULL, <<t>> is the timestamp t
NULL == <<>>

\* the zero value of database.Feed, which scrapeFeeds holds when the query failed
NoFeed == [ID |-> 0, LastFetchedAt |-> NULL]

RSSItem == [Title : RawTitles \cup {"A & B"}, Link : Links,
            Description : RawDescriptions \cup {"x < y"}, PubDate : PubDates]

RawItems == [Title : RawTitles, Link : Links,
             Description : RawDescriptions, PubDate : PubDates]

RECURSIVE SeqsUpTo(_, _)
SeqsUpTo(S, n) ==
    IF n = 0 THEN {<<>>}
    ELSE LET shorter == SeqsUpTo(S, n - 1)
         IN  shorter \cup {Append(s, x) : s \in {t \in shorter : Len(t) = n - 1}, x \in S}

\* the documents a feed URL may serve
RawDocs == SeqsUpTo(RawItems, MaxItems)

(* --------------------------- pure functions ---------------------------- *)

\* html.UnescapeString on the strings of the model
UnescapeString(s) ==
    CASE s = "A &amp; B" -> "A & B"
      [] s = "x &lt; y" -> "x < y"
      [] OTHER -> s

\* unescapeFeed: titles and descriptions of every item, nothing else
unescapeFeed(items) ==
    [i \in 1..Len(items) |->
        [items[i] EXCEPT !.Title = UnescapeString(items[i].Title),
                         !.Description = UnescapeString(items[i].Description)]]

\* time.Parse(time.RFC1123Z, s): the layout demands a numeric zone
ParseRFC1123Z(s) ==
    CASE s = "Mon, 02 Jan 2006 15:04:05 -0700" -> [ok |-> TRUE, t |-> 1136239445]
      [] OTHER -> [ok |-> FALSE, t |-> 0]

\* time.ParseDuration
ParseDuration(s) ==
    CASE s = "1m" -> [ok |-> TRUE, d |-> 60]
      [] OTHER -> [ok |-> FALSE, d |-> 0]

(* ------------------------------- state --------------------------------- *)

VARIABLES
    feeds,        \* ids of the rows of table feeds
    lastFetched,  \* feeds.last_fetched_at, per feed id
    posts,        \* rows of table posts
    nextId,       \* uuid.New(): the next fresh identity
    clock,        \* the time of day
    cycles,       \* poll cycles started so far
    pc,           \* per process: position in handlerAgg / scrapeFeeds
    feedRow,      \* per process: the row GetNextFeedToFetch returned
    feed,         \* per process: feed.Channel.Item of the fetched document
    idx,          \* per process: position of the range loop over the items
    err,          \* per process: the error scrapeFeeds returns
    report,       \* per process: outcome of each CreatePost of this cycle
    stderr,       \* per process: the error handlerAgg wrote to stderr for this cycle
    exitErr,      \* per process: the error handlerAgg returned to main
    postsAtStart, \* per process: table posts when the cycle started
    fetchedAt,    \* per process: last_fetched_at of the feed when fetchFeed was called
    prev,         \* per process: summary of the previous cycle
    lastDoc,      \* per process: the document of the latest successful fetch
    rerun,        \* per process: this cycle ingests the previous cycle's document again
    visits,       \* the feeds selected so far, oldest first
    owed,         \* per feed: <<S>> when its latest cycle failed, S the feeds
                  \* not selected since; <<>> when its latest cycle did not fail
    owedAtSelect, \* per process: owed of the selected feed when it was selected
    users,        \* names of the rows of table users
    feedOwner,    \* feeds.user_id, per feed id
    feed_follows, \* rows of table feed_follows
    currentUserName, \* config.CurrentUserName
    cmd,          \* the command line of the gator process that runs
    cmdPc,        \* where that process stands: shell (none runs), lookup, handler
    cmdUser,      \* the user the middleware hands to the handler
    cmdErr,       \* what commands.run returned for the latest command
    handlerRan,   \* the handler of the latest command was called
    commands      \* commands run so far

store == <<feeds, lastFetched, posts, nextId, clock>>
locals == <<pc, feedRow, feed, idx, err, report, stderr, exitErr>>
history == <<cycles, postsAtStart, fetchedAt, prev, lastDoc, rerun, visits, owed,
            owedAtSelect>>
vars == <<feeds, lastFetched, posts, nextId, clock, cycles, pc, feedRow, feed,
          idx, err, report, stderr, exitErr, postsAtStart, fetchedAt,
          prev, lastDoc, rerun, visits, owed, owedAtSelect, users, feedOwner,
          feed_follows, currentUserName, cmd, cmdPc, cmdUser, cmdErr,
          handlerRan, commands>>

\* what the command processes hold and the tables only they write
cli == <<users, feedOwner, feed_follows, currentUserName, cmd, cmdPc, cmdUser,
         cmdErr, handlerRan, commands>>

\* what only the agg processes hold
agg == <<nextId, clock, cycles, pc, feedRow, feed, idx, err, report, stderr,
         exitErr, postsAtStart, fetchedAt, prev, lastDoc, rerun, visits, owed,
         owedAtSelect>>

\* the zero value of database.User
NoUser == [ID |-> "", Name |-> ""]

NoCmd == [name |-> "", args |-> <<>>]

NoPrev == [feed_id |-> 0, err |-> "none", complete |-> FALSE, posts |-> {}]

Init ==
    /\ feeds \in SUBSET FeedIds
    /\ lastFetched = [f \in FeedIds |-> NULL]
    /\ posts = {}
    /\ nextId = 1
    /\ clock = 0
    /\ cycles = 0
    /\ pc = [p \in Procs |-> "start"]
    /\ feedRow = [p \in Procs |-> NoFeed]
    /\ feed = [p \in Procs |-> <<>>]
    /\ idx = [p \in Procs |-> 0]
    /\ err = [p \in Procs |-> "none"]
    /\ report = [p \in Procs |-> <<>>]
    /\ stderr = [p \in Procs |-> "none"]
    /\ exitErr = [p \in Procs |-> "none"]
    /\ postsAtStart = [p \in Procs |-> {}]
    /\ fetchedAt = [p \in Procs |-> NULL]
    /\ prev = [p \in Procs |-> NoPrev]
    /\ lastDoc = [p \in Procs |-> <<>>]
    /\ rerun = [p \in Procs |-> FALSE]
    /\ visits = <<>>
    /\ owed = [f \in FeedIds |-> <<>>]
    /\ owedAtSelect = [p \in Procs |-> <<>>]
    /\ users = IF feeds = {} THEN {} ELSE {"alice"}
    /\ feedOwner = [f \in FeedIds |-> IF f \in feeds THEN "alice" ELSE ""]
    /\ feed_follows = {[user_id |-> "alice", feed_id |-> f] : f \in feeds}
    /\ currentUserName = IF feeds = {} THEN "" ELSE "alice"
    /\ cmd = NoCmd
    /\ cmdPc = "shell"
    /\ cmdUser = NoUser
    /\ cmdErr = "none"
    /\ handlerRan = FALSE
    /\ commands = 0

(* ----------------------------- the store ------------------------------- *)

\* ORDER BY last_fetched_at ASC NULLS FIRST
NullsFirstLeq(a, b) ==
    \/ a = NULL
    \/ b # NULL /\ a[1] <= b[1]

\* GetNextFeedToFetch: the rows that may come first; none is sql.ErrNoRows
GetNextFeedToFetch ==
    {[ID |-> f, LastFetchedAt |-> lastFetched[f]] :
        f \in {f \in feeds : \A g \in feeds :
                  NullsFirstLeq(lastFetched[f], lastFetched[g])}}

\* MarkFeedFetched: last_fetched_at = NOW() of the row with this id
MarkFeedFetched(id, now) ==
    [f \in FeedIds |-> IF f = id THEN <<now>> ELSE lastFetched[f]]

\* posts.url is UNIQUE: the rows that make an insert of url fail
posts_url_key_dropped(url) ==
    {}

posts_url_key(url) ==
    {r \in posts : r.url = url}

\* CreatePost: INSERT INTO posts ... RETURNING *
CreatePost(params) ==
    posts \cup {params}

\* the parameters scrapeFeeds builds for one item
CreatePostParams(p, item, pubTime) ==
    [id |-> nextId, created_at |-> clock, updated_at |-> clock,
     title |-> item.Title, description |-> item.Description,
     published_at |-> pubTime, feed_id |-> feedRow[p].ID, url |-> item.Link]

(* ---------------------------- handlerAgg ------------------------------- *)

\* handlerAgg up to the loop: one argument that parses as a duration, or
\* the error goes back to main and the process exits
AggStart(p) ==
    /\ pc[p] = "start"
    /\ \E args \in ArgLists :
          IF Len(args) # 1
          THEN /\ pc' = [pc EXCEPT ![p] = "exited"]
               /\ exitErr' = [exitErr EXCEPT ![p] = "usage"]
          ELSE IF ~ParseDuration(args[1]).ok
          THEN /\ pc' = [pc EXCEPT ![p] = "exited"]
               /\ exitErr' = [exitErr EXCEPT ![p] = "duration"]
          ELSE /\ pc' = [pc EXCEPT ![p] = "select"]
               /\ exitErr' = exitErr
    /\ UNCHANGED <<store, history, feedRow, feed, idx, err, report, stderr>>

\* the cycle went through every item and the store took every CreatePost
Complete(p) ==
    /\ err[p] = "none"
    /\ Len(report[p]) = Len(feed[p])
    /\ \A i \in 1..Len(report[p]) : report[p][i] # "error"

\* what the history keeps of a cycle that is over
Summary(p) ==
    [feed_id |-> feedRow[p].ID, err |-> err[p], complete |-> Complete(p),
     posts |-> posts]

\* the loop body after scrapeFeeds returned: the error is fatal
AggReportFatal(p) ==
    /\ pc[p] = "return"
    /\ stderr' = [stderr EXCEPT ![p] = err[p]]
    /\ IF err[p] # "none"
       THEN /\ pc' = [pc EXCEPT ![p] = "exited"]
            /\ exitErr' = [exitErr EXCEPT ![p] = err[p]]
       ELSE /\ pc' = [pc EXCEPT ![p] = "wait"]
            /\ exitErr' = exitErr
    /\ prev' = [prev EXCEPT ![p] = Summary(p)]
    /\ UNCHANGED <<store, cycles, postsAtStart, fetchedAt, lastDoc, rerun,
                   visits, owed, owedAtSelect, feedRow, feed, idx, err, report>>

\* the loop body after scrapeFeeds returned: write the error, if any, to
\* stderr and go on to wait for the tick
AggReport(p) ==
    /\ pc[p] = "return"
    /\ stderr' = [stderr EXCEPT ![p] = err[p]]
    /\ pc' = [pc EXCEPT ![p] = "wait"]
    /\ prev' = [prev EXCEPT ![p] = Summary(p)]
    /\ UNCHANGED <<store, cycles, postsAtStart, fetchedAt, lastDoc, rerun,
                   visits, owed, owedAtSelect, feedRow, feed, idx, err, report,
                   exitErr>>

\* <-ticker.C
Tick(p) ==
    /\ pc[p] = "wait"
    /\ pc' = [pc EXCEPT ![p] = "select"]
    /\ UNCHANGED <<store, history, feedRow, feed, idx, err, report, stderr,
                   exitErr>>

(* ---------------------------- scrapeFeeds ------------------------------ *)

\* return fmt.Errorf(...): the cycle ends with error e
Fail(p, e) ==
    /\ pc' = [pc EXCEPT ![p] = "return"]
    /\ err' = [err EXCEPT ![p] = e]

\* the feeds that have to be selected before f is selected again
Owe(f) ==
    [owed EXCEPT ![f] = <<feeds \ {f}>>]

\* what a new cycle starts from
StartCycle(p) ==
    /\ cycles < MaxCycles
    /\ cycles' = cycles + 1
    /\ postsAtStart' = [postsAtStart EXCEPT ![p] = posts]
    /\ fetchedAt' = [fetchedAt EXCEPT ![p] = NULL]
    /\ rerun' = [rerun EXCEPT ![p] = FALSE]
    /\ feed' = [feed EXCEPT ![p] = <<>>]
    /\ idx' = [idx EXCEPT ![p] = 0]
    /\ report' = [report EXCEPT ![p] = <<>>]
    /\ stderr' = [stderr EXCEPT ![p] = "none"]

\* the query gave a row
Selected(p, row) ==
    /\ feedRow' = [feedRow EXCEPT ![p] = row]
    /\ visits' = Append(visits, row.ID)
    /\ owedAtSelect' = [owedAtSelect EXCEPT ![p] = owed[row.ID]]
    /\ owed' = [g \in FeedIds |->
                   IF g = row.ID \/ owed[g] = <<>> THEN <<>>
                   ELSE <<owed[g][1] \ {row.ID}>>]
    /\ pc' = [pc EXCEPT ![p] = "mark"]
    /\ err' = [err EXCEPT ![p] = "none"]

\* s.db.GetNextFeedToFetch, its error dropped
SelectUnchecked(p) ==
    /\ pc[p] = "select"
    /\ StartCycle(p)
    /\ \/ \E row \in GetNextFeedToFetch : Selected(p, row)
       \/ /\ feedRow' = [feedRow EXCEPT ![p] = NoFeed]
          /\ pc' = [pc EXCEPT ![p] = "mark"]
          /\ err' = [err EXCEPT ![p] = "none"]
          /\ owedAtSelect' = [owedAtSelect EXCEPT ![p] = <<>>]
          /\ UNCHANGED <<visits, owed>>
    /\ UNCHANGED <<store, prev, lastDoc, exitErr>>

\* s.db.GetNextFeedToFetch: a row, or an error (no rows, or the store failed)
Select(p) ==
    /\ pc[p] = "select"
    /\ StartCycle(p)
    /\ \/ \E row \in GetNextFeedToFetch : Selected(p, row)
       \/ /\ feedRow' = [feedRow EXCEPT ![p] = NoFeed]
          /\ Fail(p, "select")
          /\ owedAtSelect' = [owedAtSelect EXCEPT ![p] = <<>>]
          /\ UNCHANGED <<visits, owed>>
    /\ UNCHANGED <<store, prev, lastDoc, exitErr>>

\* s.db.MarkFeedFetched left out: time passes, the row stays as it was
MarkSkipped(p) ==
    /\ pc[p] = "mark"
    /\ clock' = clock + 1
    /\ pc' = [pc EXCEPT ![p] = "fetch"]
    /\ UNCHANGED <<feeds, lastFetched, posts, nextId, history, feedRow, feed,
                   idx, err, report, stderr, exitErr>>

\* s.db.MarkFeedFetched: the row is stamped, or the store failed
Mark(p) ==
    /\ pc[p] = "mark"
    /\ \/ /\ clock' = clock + 1
          /\ lastFetched' = MarkFeedFetched(feedRow[p].ID, clock')
          /\ pc' = [pc EXCEPT ![p] = "fetch"]
          /\ err' = err
       \/ /\ Fail(p, "mark")
          /\ UNCHANGED <<clock, lastFetched>>
    /\ UNCHANGED <<feeds, posts, nextId, history, feedRow, feed, idx, report,
                   stderr, exitErr>>

\* fetchFeed returned a document
Fetched(p, body) ==
    /\ feed' = [feed EXCEPT ![p] = unescapeFeed(body)]
    /\ lastDoc' = [lastDoc EXCEPT ![p] = feed'[p]]
    /\ rerun' = [rerun EXCEPT ![p] = /\ prev[p].complete
                                     /\ prev[p].feed_id = feedRow[p].ID
                                     /\ prev[p].posts = posts
                                     /\ lastDoc[p] = feed'[p]]
    /\ idx' = [idx EXCEPT ![p] = 1]
    /\ pc' = [pc EXCEPT ![p] = "items"]
    /\ UNCHANGED <<err, owed>>

\* fetchFeed, with the stamp taken back when the fetch fails
FetchRollback(p) ==
    /\ pc[p] = "fetch"
    /\ fetchedAt' = [fetchedAt EXCEPT ![p] = lastFetched[feedRow[p].ID]]
    /\ \/ /\ \E e \in {"transport", "format"} : Fail(p, e)
          /\ owed' = Owe(feedRow[p].ID)
          /\ lastFetched' = [lastFetched EXCEPT
                                ![feedRow[p].ID] = feedRow[p].LastFetchedAt]
          /\ UNCHANGED <<feed, idx, lastDoc, rerun>>
       \/ /\ \E body \in RawDocs : Fetched(p, body)
          /\ UNCHANGED lastFetched
    /\ UNCHANGED <<feeds, posts, nextId, clock, cycles, postsAtStart, prev,
                   visits, owedAtSelect, feedRow, report, stderr, exitErr>>

\* fetchFeed: the request and the body (transport), xml.Unmarshal (format),
\* unescapeFeed
Fetch(p) ==
    /\ pc[p] = "fetch"
    /\ fetchedAt' = [fetchedAt EXCEPT ![p] = lastFetched[feedRow[p].ID]]
    /\ \/ /\ \E e \in {"transport", "format"} : Fail(p, e)
          /\ owed' = Owe(feedRow[p].ID)
          /\ UNCHANGED <<feed, idx, lastDoc, rerun>>
       \/ \E body \in RawDocs : Fetched(p, body)
    /\ UNCHANGED <<store, cycles, postsAtStart, prev, visits, owedAtSelect,
                   feedRow, report, stderr, exitErr>>

\* the item is skipped and the loop goes on
SkipBadDate(p) ==
    /\ idx' = [idx EXCEPT ![p] = @ + 1]
    /\ UNCHANGED <<pc, err, posts, nextId, report, owed>>

\* time.Parse failed: return the error
BadDate(p) ==
    /\ Fail(p, "date")
    /\ owed' = Owe(feedRow[p].ID)
    /\ UNCHANGED <<posts, nextId, idx, report>>

\* CreatePost added the row
Inserted(p, params) ==
    /\ posts' = CreatePost(params)
    /\ nextId' = nextId + 1
    /\ report' = [report EXCEPT ![p] = Append(@, "inserted")]
    /\ idx' = [idx EXCEPT ![p] = @ + 1]
    /\ UNCHANGED <<pc, err, owed>>

\* the duplicate key error is returned like any other error
DuplicateReturned(p) ==
    /\ report' = [report EXCEPT ![p] = Append(@, "duplicate")]
    /\ Fail(p, "store")
    /\ owed' = Owe(feedRow[p].ID)
    /\ UNCHANGED <<posts, nextId, idx>>

\* the insert is an upsert: the stored row is rewritten from this item
DuplicateUpdates(p) ==
    /\ report' = [report EXCEPT ![p] = Append(@, "duplicate")]
    /\ idx' = [idx EXCEPT ![p] = @ + 1]
    /\ posts' = {IF r.url = feed[p][idx[p]].Link
                 THEN [r EXCEPT !.feed_id = feedRow[p].ID, !.updated_at = clock]
                 ELSE r : r \in posts}
    /\ UNCHANGED <<pc, err, nextId, owed>>

\* CreatePost failed on posts_url_key: nothing is printed, the loop goes on
Duplicate(p) ==
    /\ report' = [report EXCEPT ![p] = Append(@, "duplicate")]
    /\ idx' = [idx EXCEPT ![p] = @ + 1]
    /\ UNCHANGED <<pc, err, posts, nextId, owed>>

\* the store error is returned
StoreErrorReturned(p) ==
    /\ report' = [report EXCEPT ![p] = Append(@, "error")]
    /\ Fail(p, "store")
    /\ owed' = Owe(feedRow[p].ID)
    /\ UNCHANGED <<posts, nextId, idx>>

\* CreatePost failed otherwise: fmt.Println(err.Error()), the loop goes on
StoreError(p) ==
    /\ report' = [report EXCEPT ![p] = Append(@, "error")]
    /\ idx' = [idx EXCEPT ![p] = @ + 1]
    /\ owed' = Owe(feedRow[p].ID)
    /\ UNCHANGED <<pc, err, posts, nextId>>

\* one round of the range loop: time.Parse, then s.db.CreatePost
Item(p) ==
    /\ pc[p] = "items"
    /\ idx[p] <= Len(feed[p])
    /\ LET item == feed[p][idx[p]]
           pubTime == ParseRFC1123Z(item.PubDate)
       IN  IF ~pubTime.ok
           THEN BadDate(p)
           ELSE \/ /\ posts_url_key(item.Link) = {}
                   /\ Inserted(p, CreatePostParams(p, item, pubTime.t))
                \/ /\ posts_url_key(item.Link) # {}
                   /\ Duplicate(p)
                \/ StoreError(p)
    /\ UNCHANGED <<feeds, lastFetched, clock, cycles, postsAtStart, fetchedAt,
                   prev, lastDoc, rerun, visits, owedAtSelect, feedRow, feed,
                   stderr, exitErr>>

\* the range loop is over: return nil
Done(p) ==
    /\ pc[p] = "items"
    /\ idx[p] > Len(feed[p])
    /\ pc' = [pc EXCEPT ![p] = "return"]
    /\ UNCHANGED <<store, history, feedRow, feed, idx, err, report, stderr,
                   exitErr>>

(* -------------------------- specifications ----------------------------- *)

Step(p) ==
    /\ \/ AggStart(p)
       \/ Select(p)
       \/ Mark(p)
       \/ Fetch(p)
       \/ Item(p)
       \/ Done(p)
       \/ AggReport(p)
       \/ Tick(p)
    /\ UNCHANGED cli

\* one agg process polling the store
Next == Step(1)

Spec == Init /\ [][Next]_vars

\* the surroundings of the cycles at hand did their part: the store answered
\* every query (a select failed only for want of rows, no mark failed, no
\* CreatePost failed but on posts_url_key) and every fetch gave a document
\* whose dates parse
Answers ==
    \A p \in Procs :
        /\ err[p] \notin {"mark", "transport", "format"}
        /\ err[p] = "select" => feeds = {}
        /\ \A i \in 1..Len(report[p]) : report[p][i] # "error"
        /\ \A i \in 1..Len(feed[p]) : ParseRFC1123Z(feed[p][i].PubDate).ok

\* two agg processes polling the same store, in any interleaving
NextConc ==
    /\ \E p \in Procs : Step(p)
    /\ cycles' <= MaxConcCycles
    /\ Answers'

InitConc ==
    /\ Init
    /\ feeds # {}
    /\ feeds \subseteq ConcFeedIds

SpecConc == InitConc /\ [][NextConc]_vars

(* ------------------------- the command processes ----------------------- *)

\* feeds.url, UNIQUE: the url each feed id stands for
FeedUrl ==
    [f \in FeedIds |-> CASE f = 1 -> "http://f/1"
                         [] f = 2 -> "http://f/2"
                         [] OTHER -> "http://f/3"]

\* the commands init registers through middlewareLoggedIn
LoggedInCommands == {"addfeed", "follow", "following", "unfollow", "browse"}

\* the commands init registers as they are; agg is the process of Spec
PlainCommands == {"login", "register", "reset", "users", "feeds"}

\* commandRegistry.handlers
Registered == LoggedInCommands \cup PlainCommands

\* the command lines tried: name and arguments
ArgsOf(name) ==
    CASE name \in {"login", "register"} ->
            {<<>>, <<"alice", "bob">>} \cup {<<u>> : u \in UserNames}
      [] name = "addfeed" ->
            {<<>>} \cup {<<"blog", FeedUrl[f]>> : f \in FeedIds}
      [] name \in {"follow", "unfollow"} ->
            {<<>>} \cup {<<FeedUrl[f]>> : f \in FeedIds}
      [] name = "browse" -> {<<>>, <<"1">>, <<"0">>, <<"x">>, <<"1", "1">>}
      [] name = "help" -> {<<>>}
      [] OTHER -> {<<>>, <<"x">>}

CommandLines ==
    {[name |-> n, args |-> a] : n \in Registered \cup {"help"},
                                a \in {<<>>, <<"x">>, <<"1">>, <<"0">>,
                                       <<"1", "1">>, <<"alice", "bob">>}
                                      \cup {<<u>> : u \in UserNames}
                                      \cup {<<FeedUrl[f]>> : f \in FeedIds}
                                      \cup {<<"blog", FeedUrl[f]>> : f \in FeedIds}}

\* strconv.Atoi on the strings of the model
Atoi(s) ==
    CASE s = "1" -> [ok |-> TRUE, n |-> 1]
      [] s = "0" -> [ok |-> TRUE, n |-> 0]
      [] OTHER -> [ok |-> FALSE, n |-> 0]

\* GetUser: the row of users with this name, or sql.ErrNoRows
GetUser(name) ==
    IF name \in users
    THEN [ok |-> TRUE, user |-> [ID |-> name, Name |-> name]]
    ELSE [ok |-> FALSE, user |-> NoUser]

\* GetFeedByURL: the feed ids with this url (none is sql.ErrNoRows)
GetFeedByURL(url) ==
    {f \in feeds : FeedUrl[f] = url}

\* GetFeedFollowsForUser
GetFeedFollowsForUser(id) ==
    {r \in feed_follows : r.user_id = id}

\* the command is over: commands.run returned e to main
Finish(e) ==
    /\ cmdErr' = e
    /\ cmdPc' = "shell"

\* main and commands.run: a gator process starts and looks the handler up
Run ==
    /\ cmdPc = "shell"
    /\ commands < MaxCommands
    /\ commands' = commands + 1
    /\ \E c \in CommandLines :
          /\ c.args \in ArgsOf(c.name)
          /\ cmd' = c
          /\ IF c.name \notin Registered
             THEN Finish("nosuch")
             ELSE /\ cmdErr' = "none"
                  /\ cmdPc' = IF c.name \in LoggedInCommands
                              THEN "lookup" ELSE "handler"
    /\ cmdUser' = NoUser
    /\ handlerRan' = FALSE
    /\ UNCHANGED <<feeds, lastFetched, posts, users, feedOwner, feed_follows,
                   currentUserName, agg>>

\* the error of GetUser dropped: the handler gets whatever came back
LookupUnchecked ==
    /\ cmdPc = "lookup"
    /\ cmdUser' = GetUser(currentUserName).user
    /\ cmdPc' = "handler"
    /\ UNCHANGED <<feeds, lastFetched, posts, users, feedOwner, feed_follows,
                   currentUserName, cmd, cmdErr, handlerRan, commands, agg>>

\* the closure of middlewareLoggedIn up to the call of the handler: GetUser
\* of the configured name; no such user, or a failing store, is the error
Lookup ==
    /\ cmdPc = "lookup"
    /\ \/ /\ GetUser(currentUserName).ok
          /\ cmdUser' = GetUser(currentUserName).user
          /\ cmdPc' = "handler"
          /\ UNCHANGED cmdErr
       \/ /\ Finish("lookup")
          /\ UNCHANGED cmdUser
    /\ UNCHANGED <<feeds, lastFetched, posts, users, feedOwner, feed_follows,
                   currentUserName, cmd, handlerRan, commands, agg>>

\* what every handler does: it was called, and it returns
Handle(name) ==
    /\ cmdPc = "handler"
    /\ cmd.name = name
    /\ handlerRan' = TRUE
    /\ UNCHANGED <<cmd, cmdUser, commands, agg>>

\* handlerLogin
HandlerLogin ==
    /\ Handle("login")
    /\ IF Len(cmd.args) # 1 THEN Finish("usage") /\ UNCHANGED currentUserName
       ELSE IF ~GetUser(cmd.args[1]).ok
       THEN Finish("login") /\ UNCHANGED currentUserName
       ELSE Finish("none") /\ currentUserName' = cmd.args[1]
    /\ UNCHANGED <<feeds, lastFetched, posts, users, feedOwner, feed_follows>>

\* handlerRegister
HandlerRegister ==
    /\ Handle("register")
    /\ IF Len(cmd.args) # 1
       THEN Finish("usage") /\ UNCHANGED <<users, currentUserName>>
       ELSE IF cmd.args[1] \in users
       THEN Finish("register") /\ UNCHANGED <<users, currentUserName>>
       ELSE /\ Finish("none")
            /\ users' = users \cup {cmd.args[1]}
            /\ currentUserName' = cmd.args[1]
    /\ UNCHANGED <<feeds, lastFetched, posts, feedOwner, feed_follows>>

\* handlerReset: every user goes, and with ON DELETE CASCADE every feed,
\* follow and post
HandlerReset ==
    /\ Handle("reset")
    /\ IF Len(cmd.args) # 0
       THEN /\ Finish("usage")
            /\ UNCHANGED <<feeds, lastFetched, posts, users, feedOwner,
                           feed_follows>>
       ELSE /\ Finish("none")
            /\ users' = {}
            /\ feeds' = {}
            /\ feedOwner' = [f \in FeedIds |-> ""]
            /\ lastFetched' = [f \in FeedIds |-> NULL]
            /\ feed_follows' = {}
            /\ posts' = {}
    /\ UNCHANGED currentUserName

\* handlerUsers, handlerFeeds: they print
HandlerList ==
    /\ \E name \in {"users", "feeds"} : Handle(name)
    /\ IF Len(cmd.args) # 0 THEN Finish("usage") ELSE Finish("none")
    /\ UNCHANGED <<feeds, lastFetched, posts, users, feedOwner, feed_follows,
                   currentUserName>>

\* handlerAddfeed: CreateFeed, then handlerFollow for the new feed
HandlerAddfeed ==
    /\ Handle("addfeed")
    /\ IF Len(cmd.args) # 2
       THEN /\ Finish("usage")
            /\ UNCHANGED <<feeds, feedOwner, feed_follows>>
       ELSE IF GetFeedByURL(cmd.args[2]) # {}
       THEN /\ Finish("addfeed")
            /\ UNCHANGED <<feeds, feedOwner, feed_follows>>
       ELSE \E f \in FeedIds :
               /\ FeedUrl[f] = cmd.args[2]
               /\ feeds' = feeds \cup {f}
               /\ feedOwner' = [feedOwner EXCEPT ![f] = cmdUser.ID]
               /\ feed_follows' = feed_follows \cup
                     {[user_id |-> cmdUser.ID, feed_id |-> f]}
               /\ Finish("none")
    /\ UNCHANGED <<lastFetched, posts, users, currentUserName>>

\* handlerFollow: GetFeedByURL, then CreateFeedFollow under no_dupes
HandlerFollow ==
    /\ Handle("follow")
    /\ IF Len(cmd.args) # 1
       THEN Finish("usage") /\ UNCHANGED feed_follows
       ELSE IF GetFeedByURL(cmd.args[1]) = {}
       THEN Finish("follow") /\ UNCHANGED feed_follows
       ELSE \E f \in GetFeedByURL(cmd.args[1]) :
               LET row == [user_id |-> cmdUser.ID, feed_id |-> f]
               IN  IF row \in feed_follows
                   THEN Finish("follow") /\ UNCHANGED feed_follows
                   ELSE Finish("none") /\ feed_follows' = feed_follows \cup {row}
    /\ UNCHANGED <<feeds, lastFetched, posts, users, feedOwner, currentUserName>>

\* handlerFollowing: it prints
HandlerFollowing ==
    /\ Handle("following")
    /\ IF Len(cmd.args) # 0 THEN Finish("usage") ELSE Finish("none")
    /\ UNCHANGED <<feeds, lastFetched, posts, users, feedOwner, feed_follows,
                   currentUserName>>

\* handlerUnfollow: the follow of this user for this url goes, if there is one
HandlerUnfollow ==
    /\ Handle("unfollow")
    /\ IF Len(cmd.args) # 1
       THEN Finish("usage") /\ UNCHANGED feed_follows
       ELSE LET mine == {r \in GetFeedFollowsForUser(cmdUser.ID) :
                            FeedUrl[r.feed_id] = cmd.args[1]}
            IN  IF mine = {}
                THEN Finish("unfollow") /\ UNCHANGED feed_follows
                ELSE Finish("none") /\ feed_follows' = feed_follows \ mine
    /\ UNCHANGED <<feeds, lastFetched, posts, users, feedOwner, currentUserName>>

\* handlerBrowse: at most one argument, a positive number; it prints
HandlerBrowse ==
    /\ Handle("browse")
    /\ IF Len(cmd.args) > 1 THEN Finish("usage")
       ELSE IF Len(cmd.args) = 1 /\ ~Atoi(cmd.args[1]).ok THEN Finish("browse")
       ELSE IF Len(cmd.args) = 1 /\ Atoi(cmd.args[1]).n <= 0 THEN Finish("browse")
       ELSE Finish("none")
    /\ UNCHANGED <<feeds, lastFetched, posts, users, feedOwner, feed_follows,
                   currentUserName>>

\* gator commands, one process at a time, on a database that starts empty
NextCmd ==
    \/ Run
    \/ Lookup
    \/ HandlerLogin
    \/ HandlerRegister
    \/ HandlerReset
    \/ HandlerList
    \/ HandlerAddfeed
    \/ HandlerFollow
    \/ HandlerFollowing
    \/ HandlerUnfollow
    \/ HandlerBrowse

InitCmd ==
    /\ Init
    /\ feeds = {}

SpecCmd == InitCmd /\ [][NextCmd]_vars

(* ------------------------------ claims --------------------------------- *)

\* some row of posts has this url
Stored(url) ==
    \E r \in posts : r.url = url

\* the number of CreatePost calls of the cycle that added a row
InsertedCount(p) ==
    Cardinality({i \in 1..Len(report[p]) : report[p][i] = "inserted"})

\* scrapeFeeds is over for this cycle
Returned(p) ==
    pc[p] \in {"return", "wait"}

\* fetchFeed was called in this cycle
Issued(p) ==
    \/ pc[p] = "items"
    \/ Returned(p) /\ err[p] \notin {"select", "mark"}

\* timestamp a is later than the nullable timestamp b
Later(a, b) ==
    a # NULL /\ (b = NULL \/ a[1] > b[1])

\* the store answered every GetNextFeedToFetch and MarkFeedFetched so far
StoreAnswered ==
    /\ cycles = Len(visits)
    /\ clock + Cardinality({p \in Procs : pc[p] = "mark"}) = Len(visits)

\* this step of p issued a CreatePost whose outcome was o
CreatePostStep(p, o) ==
    /\ pc[p] = "items"
    /\ Len(report'[p]) = Len(report[p]) + 1
    /\ report'[p][Len(report'[p])] = o

\* C1: idempotence of ingestion.  A cycle that ingests, for the same feed
\* and from the same table posts, the document of the previous cycle, when
\* that previous cycle went through every item (all dates parsed, every
\* CreatePost answered by the store), creates no Post: table posts stays what
\* the first run left, no entry is inserted, every entry the store answers
\* is a duplicate-skip, and the run ends without error after the last item.
C1_Idempotent ==
    \A p \in Procs :
        rerun[p] =>
            /\ posts = prev[p].posts
            /\ \A i \in 1..Len(report[p]) :
                  report[p][i] = "duplicate" \/ report[p][i] = "error"
            /\ Returned(p) => err[p] = "none" /\ Len(report[p]) = Len(feed[p])

C1_Witness ==
    /\ rerun[1]
    /\ pc[1] = "return"
    /\ Len(feed[1]) = 2
    /\ report[1] = <<"duplicate", "duplicate">>
    /\ Cardinality(posts) = 2

\* C2: no two Posts have the same source URL, in every reachable state; a
\* CreatePost for a URL that is already stored (by the same or by another
\* feed) adds no Post and changes none: the first one stored stays, owned
\* by the feed that was processed first.
C2_UniqueURL ==
    /\ [](\A r1, r2 \in posts : r1.url = r2.url => r1 = r2)
    /\ [][\A p \in Procs :
            (/\ pc[p] = "items"
             /\ report'[p] # report[p]
             /\ Stored(feed[p][idx[p]].Link))
            => /\ posts' = posts
               /\ ~CreatePostStep(p, "inserted")]_vars

C2_Witness ==
    /\ pc[1] = "items"
    /\ idx[1] = 2
    /\ report[1] = <<"duplicate">>
    /\ \E r \in posts : r.url = feed[1][1].Link /\ r.feed_id # feedRow[1].ID

\* C3: fairness of selection.  From a store whose N feeds all have a null
\* last-fetched timestamp, and as long as the store answers the queries,
\* the first N cycles select N different feeds, that is each feed exactly
\* once; and a feed with a non-null timestamp is selected only when no feed
\* has a null one.
C3_Fairness ==
    /\ [](StoreAnswered =>
            LET n == Cardinality(feeds)
                m == IF Len(visits) < n THEN Len(visits) ELSE n
            IN  /\ \A i, j \in 1..m : visits[i] = visits[j] => i = j
                /\ Len(visits) >= n => {visits[i] : i \in 1..n} = feeds)
    /\ [][\A p \in Procs :
            (pc[p] = "select" /\ pc'[p] = "mark"
                /\ feedRow'[p].LastFetchedAt # NULL)
            => \A g \in feeds : lastFetched[g] # NULL]_vars

C3_Witness ==
    /\ feeds = FeedIds
    /\ StoreAnswered
    /\ Len(visits) = Cardinality(FeedIds)
    /\ {visits[i] : i \in 1..Len(visits)} = feeds
    /\ pc[1] = "wait"

\* C4: the selected feed's last-fetched timestamp is written before the
\* fetch is issued: when fetchFeed is called the row carries a timestamp
\* later than the one it was selected with, and it keeps such a timestamp
\* through every outcome of the fetch, the parse and the ingestion.
C4_MarkedBeforeFetch ==
    \A p \in Procs :
        /\ pc[p] = "fetch" =>
              Later(lastFetched[feedRow[p].ID], feedRow[p].LastFetchedAt)
        /\ Issued(p) =>
              /\ Later(fetchedAt[p], feedRow[p].LastFetchedAt)
              /\ Later(lastFetched[feedRow[p].ID], feedRow[p].LastFetchedAt)
              /\ lastFetched[feedRow[p].ID][1] >= fetchedAt[p][1]

C4_Witness ==
    /\ pc[1] = "return"
    /\ err[1] = "transport"
    /\ feedRow[1].LastFetchedAt # NULL
    /\ lastFetched[feedRow[1].ID] = <<clock>>

\* C5: a feed whose latest cycle failed (in the fetch, the parse or the
\* ingestion) is selected again only when every other feed of the store
\* has been selected since that failure.
C5_NoMonopoly ==
    \A p \in Procs :
        owedAtSelect[p] # <<>> => owedAtSelect[p][1] = {}

C5_Witness ==
    /\ pc[1] = "mark"
    /\ Cardinality(feeds) >= 2
    /\ owedAtSelect[1] = <<{}>>

\* C6: no failure of a cycle ends the polling loop.  Whatever scrapeFeeds
\* returned, handlerAgg writes it to stderr and waits for the tick, the tick
\* can always come, and after it the next cycle starts; the process exits
\* only where handlerAgg rejects its argument, before the first cycle.
C6_LoopSurvives ==
    /\ [](\A p \in Procs : pc[p] = "wait" => ENABLED Tick(p))
    /\ [][\A p \in Procs :
            /\ (pc[p] = "return" /\ pc'[p] # "return")
                  => pc'[p] = "wait" /\ stderr'[p] = err[p]
            /\ (pc[p] = "wait" /\ pc'[p] # "wait") => pc'[p] = "select"
            /\ (pc'[p] = "exited" /\ pc[p] # "exited") => pc[p] = "start"]_vars

C6_Witness ==
    /\ pc[1] = "mark"
    /\ cycles = 3
    /\ prev[1].err = "date"
    /\ exitErr[1] = "none"

\* C7: fail-fast on a bad date.  When a cycle returns the date error, the
\* loop stands at the first item k whose date does not parse; exactly the
\* k - 1 items before it went to CreatePost, each of them is stored (by this
\* cycle or before it) unless the store failed on it, and the cycle added
\* no Post but the ones it reports as inserted, so none for item k or any
\* later item.  A cycle that returns without error met no unparseable date.
C7_FailFast ==
    \A p \in Procs :
        /\ (Returned(p) /\ err[p] = "date") =>
              LET k == idx[p]
              IN  /\ k \in 1..Len(feed[p])
                  /\ ~ParseRFC1123Z(feed[p][k].PubDate).ok
                  /\ Len(report[p]) = k - 1
                  /\ \A j \in 1..(k - 1) :
                        /\ ParseRFC1123Z(feed[p][j].PubDate).ok
                        /\ report[p][j] = "error" \/ Stored(feed[p][j].Link)
                  /\ postsAtStart[p] \subseteq posts
                  /\ Cardinality(posts \ postsAtStart[p]) = InsertedCount(p)
        /\ (Returned(p) /\ err[p] = "none") =>
              \A j \in 1..Len(feed[p]) : ParseRFC1123Z(feed[p][j].PubDate).ok

C7_Witness ==
    /\ pc[1] = "return"
    /\ err[1] = "date"
    /\ idx[1] = 1
    /\ Len(feed[1]) = 2
    /\ ParseRFC1123Z(feed[1][2].PubDate).ok
    /\ ~Stored(feed[1][2].Link)
    /\ posts # {}

\* C8: a uniqueness violation is a success-with-skip.  The CreatePost that
\* meets it leaves table posts as it was, does not end the loop (the next
\* item is up) and sets no error; no cycle ever returns a store error.
C8_DuplicateSkipped ==
    /\ [](\A p \in Procs : err[p] # "store")
    /\ [][\A p \in Procs :
            CreatePostStep(p, "duplicate")
            => /\ posts' = posts
               /\ pc'[p] = "items"
               /\ idx'[p] = idx[p] + 1
               /\ err'[p] = err[p]]_vars

C8_Witness ==
    /\ pc[1] = "return"
    /\ err[1] = "none"
    /\ report[1] = <<"duplicate", "inserted">>
    /\ \E r \in posts : r.url = feed[1][1].Link /\ r.feed_id # feedRow[1].ID

\* C9, as claimed: a CreatePost that fails with another error than the
\* uniqueness violation ends the cycle at that item with a store error.
C9_Original ==
    \A p \in Procs :
        \A i \in 1..Len(report[p]) :
            report[p][i] = "error" =>
                /\ Returned(p)
                /\ err[p] = "store"
                /\ Len(report[p]) = i

\* C9, amended: a CreatePost that fails with another error than the
\* uniqueness violation is printed to standard output and nothing more:
\* the loop goes on with the next item, no cycle returns a store error and
\* none reaches stderr, and no Post is ever taken out of table posts.
C9_StoreErrorPrinted ==
    /\ [](\A p \in Procs : err[p] # "store" /\ stderr[p] # "store")
    /\ [][posts \subseteq posts']_vars
    /\ [][\A p \in Procs :
            CreatePostStep(p, "error")
            => /\ posts' = posts
               /\ pc'[p] = "items"
               /\ idx'[p] = idx[p] + 1
               /\ err'[p] = err[p]]_vars

C9_Witness ==
    /\ pc[1] = "wait"
    /\ err[1] = "none"
    /\ stderr[1] = "none"
    /\ report[1] = <<"inserted", "error">>
    /\ Cardinality(posts \ postsAtStart[1]) = 1

\* C10: with no feed in the store a cycle is a no-op: GetNextFeedToFetch
\* gives no row, scrapeFeeds returns at once, so no feed is marked, no fetch
\* is issued, no Post is created, and the loop goes on to wait for the tick.
C10_EmptyStoreNoOp ==
    /\ [](feeds = {} =>
            /\ posts = {}
            /\ visits = <<>>
            /\ \A f \in FeedIds : lastFetched[f] = NULL
            /\ \A p \in Procs :
                  /\ pc[p] \in {"start", "exited", "select", "return", "wait"}
                  /\ fetchedAt[p] = NULL
                  /\ feed[p] = <<>>)
    /\ [][\A p \in Procs :
            (feeds = {} /\ pc[p] = "select" /\ pc'[p] # "select")
            => pc'[p] = "return"]_vars

C10_Witness ==
    /\ feeds = {}
    /\ pc[1] = "wait"
    /\ cycles = 2

\* the CreatePost calls of p's cycle for this url, by position
Attempts(p, url) ==
    {i \in 1..Len(report[p]) : feed[p][i].Link = url}

\* the outcome of the first of them
FirstOutcome(p, url) ==
    report[p][CHOOSE i \in Attempts(p, url) : \A j \in Attempts(p, url) : i <= j]

\* both processes issued a CreatePost for url in cycles that each started
\* when no Post had it
Raced(url) ==
    \A p \in Procs :
        /\ Attempts(p, url) # {}
        /\ \A r \in postsAtStart[p] : r.url # url

\* C11: when two agg processes sharing the store both try, in overlapping
\* cycles, to insert a Post with a source URL that was not stored, then in
\* every interleaving one insert succeeds and the other meets the uniqueness
\* violation; exactly one Post with that URL exists, it is owned by the
\* feed of the process whose insert succeeded, and no step ever rewrites or
\* removes a stored Post.
C11_OneInsertWins ==
    /\ [](\A u \in Links :
            Raced(u) =>
                /\ \E w \in Procs :
                      /\ FirstOutcome(w, u) = "inserted"
                      /\ \A q \in Procs \ {w} : FirstOutcome(q, u) = "duplicate"
                      /\ \A r \in posts : r.url = u => r.feed_id = feedRow[w].ID
                /\ Cardinality({r \in posts : r.url = u}) = 1)
    /\ [][posts \subseteq posts']_vars

C11_Witness ==
    /\ \A p \in Procs : pc[p] = "items" /\ idx[p] = 2 /\ Len(feed[p]) = 2
    /\ feedRow[1].ID # feedRow[2].ID
    /\ feed[1][1].Link = feed[2][1].Link
    /\ Raced(feed[1][1].Link)
    /\ report[2] = <<"inserted">>
    /\ report[1] = <<"duplicate">>

\* C12: the last-fetched timestamp of every feed never decreases: no step
\* sets it back to null and no step replaces it with an earlier value.
C12_LastFetchedMonotonic ==
    [][\A f \in FeedIds :
         /\ lastFetched[f] # NULL => lastFetched'[f] # NULL
         /\ NullsFirstLeq(lastFetched[f], lastFetched'[f])]_vars

C12_Witness ==
    /\ pc[1] = "fetch"
    /\ feedRow[1].LastFetchedAt # NULL
    /\ lastFetched[feedRow[1].ID][1] > feedRow[1].LastFetchedAt[1]
    /\ prev[1].err = "transport"
    /\ prev[1].feed_id = feedRow[1].ID

\* C13: frame of a poll cycle.  No step of scrapeFeeds adds or removes a
\* feed; the only last-fetched timestamp a cycle writes is the one of the
\* feed it selected, in its mark step; every Post a cycle adds is owned by
\* the feed it selected; and no stored Post is changed or removed.
C13_CycleFrame ==
    [][/\ feeds' = feeds
       /\ \A f \in FeedIds :
             lastFetched'[f] # lastFetched[f] =>
                \E p \in Procs : pc[p] = "mark" /\ pc'[p] = "fetch"
                                    /\ feedRow[p].ID = f
       /\ posts \subseteq posts'
       /\ \A r \in posts' \ posts :
             \E p \in Procs : /\ CreatePostStep(p, "inserted")
                              /\ r.feed_id = feedRow[p].ID
                              /\ feedRow[p].ID \in feeds
       /\ Cardinality(posts' \ posts) <= 1]_vars

C13_Witness ==
    /\ pc[1] = "return"
    /\ cycles = 2
    /\ report[1] = <<"inserted", "duplicate">>
    /\ \E r \in posts : r.feed_id # feedRow[1].ID
    /\ \E r \in posts : r.feed_id = feedRow[1].ID
    /\ \E f \in feeds : lastFetched[f] = NULL

\* the tables of the store and the configuration file
durable == <<feeds, lastFetched, posts, users, feedOwner, feed_follows,
             currentUserName>>

\* C14: for every command registered through middlewareLoggedIn the user
\* lookup comes before the handler.  The handler is reached only from the
\* lookup and only when the configured user name is a user of the store, and
\* it gets that user; when the lookup fails the command returns the lookup
\* error, the handler is not called, and nothing is written: only handlers
\* write to the store or the configuration.
C14_LookupBeforeHandler ==
    /\ []((cmd.name \in LoggedInCommands /\ (cmdPc = "handler" \/ handlerRan)) =>
            /\ cmdUser.Name = currentUserName
            /\ cmdUser.Name \in users
            /\ cmdUser.ID = cmdUser.Name)
    /\ [](cmdErr = "lookup" => ~handlerRan /\ cmd.name \in LoggedInCommands)
    /\ [][/\ (cmd'.name \in LoggedInCommands /\ cmdPc' = "handler") =>
                cmdPc = "lookup" /\ currentUserName \in users
          /\ (cmdPc = "lookup" /\ cmdPc' = "shell") =>
                cmdErr' = "lookup" /\ ~handlerRan'
          /\ (cmdPc = "lookup" /\ currentUserName \notin users) =>
                cmdPc' = "shell"
          /\ cmdPc # "handler" => durable' = durable]_vars

C14_Witness ==
    /\ cmdPc = "shell"
    /\ cmd.name = "addfeed"
    /\ Len(cmd.args) = 2
    /\ cmdErr = "lookup"
    /\ ~handlerRan
    /\ currentUserName = "alice"
    /\ users = {}

====
